---- MODULE Spec2Model ----
\* Transfer pipeline of private-cloud: s3_upload_file / send_parts and
\* s3_download_file / s3_download_file_impl (src/src/aws/s3.rs), driven by
\* cloud::run (src/src/cloud.rs), over an S3-like multipart backend and a local
\* file system.  Every `.await` of the source is a suspension point: one action
\* models the response to the pending call together with the synchronous code
\* that follows it up to the next call being issued.
EXTENDS Integers, Sequences, FiniteSets, TLC

\* ---------------------------------------------------------------- bounds
\* Longest source file / stored object, in bytes.
MaxLen == 4
\* s3.rs:14 sets CHUNK_SIZE to 100 MiB; the model scales it down, the code
\* only compares lengths against it.
CHUNK_SIZE == 2
\* Most bytes one read_buf call or one body chunk delivers.
MaxFrag == 2
\* Number of distinct derived file-hash keys a provider may hold.
MaxKey == 2
\* Digest length in bytes (crypto_generichash_BYTES, scaled down).
HASH_SIZE == 1

\* Master key length in bytes (crypto_kdf_KEYBYTES, scaled down).
MASTER_KEY_SIZE == 1
\* KDF context length in bytes (crypto_kdf_CONTEXTBYTES, scaled down).
CONTEXT_SIZE == 2
\* Hash key length in bytes (crypto_generichash_KEYBYTES, scaled down).
HASH_KEY_SIZE == 1
\* Most secure-memory buffers allocated in one behaviour.
MaxAlloc == 2
\* Largest subkey id a caller derives with.
MaxKeyId == 2
MaxInit == 2

Byte == {0, 1}
SeqsUpTo(n) == UNION {[1..k -> Byte] : k \in 0..n}
Files == SeqsUpTo(MaxLen)
Uuids == {"u1", "u2"}
\* Byte values random or configured master keys are made of.
KeyBytes == 1..MaxKey
KeyMaterial == [1..MASTER_KEY_SIZE -> KeyBytes]

Min(a, b) == IF a < b THEN a ELSE b

\* ---------------------------------------------------------------- hashing
\* crypto_generichash_update over one contiguous slice, byte by byte.
RECURSIVE generichash_update(_, _)
generichash_update(st, bytes) ==
    IF bytes = <<>> THEN st
    ELSE generichash_update((st * 33 + Head(bytes) + 1) % 256, Tail(bytes))

\* crypto_generichash_init: the initial state depends on the key length, and a
\* key is absorbed as the first block.
generichash_init(key) == generichash_update((Len(key) * 97 + 11) % 256, key)

\* ChunkedHash::new: keyless.
ChunkedHash_new == [state |-> generichash_init(<<>>)]

\* ChunkedHash::keyed(&HashKey).
ChunkedHash_keyed(key) == [state |-> generichash_init(key.opaque)]

\* A Buf is a sequence of non-empty contiguous slices; Bytes is one slice.
BufOfBytes(bytes) == IF bytes = <<>> THEN <<>> ELSE <<bytes>>

\* Variant: only the first slice of the Buf is fed (no loop over chunks).
ChunkedHash_update_FirstSlice(h, data) ==
    IF data = <<>> THEN h
    ELSE [state |-> generichash_update(h.state, Head(data))]

\* ChunkedHash::update: while data.has_remaining() feed data.chunk(), advance.
RECURSIVE ChunkedHash_update(_, _)
ChunkedHash_update(h, data) ==
    IF data = <<>> THEN h
    ELSE ChunkedHash_update([state |-> generichash_update(h.state, Head(data))],
                            Tail(data))

\* ChunkedHash::finalize: HASH_SIZE digest bytes out of the state.
ChunkedHash_finalize(h) == [i \in 1..HASH_SIZE |-> (h.state * i + 7 * (i - 1)) % 256]

HexChars == <<"0", "1", "2", "3", "4", "5", "6", "7",
              "8", "9", "a", "b", "c", "d", "e", "f">>

\* hex::encode: two lowercase hex digits per byte, high nibble first.
RECURSIVE hex_encode(_)
hex_encode(bytes) ==
    IF bytes = <<>> THEN <<>>
    ELSE <<HexChars[(Head(bytes) \div 16) + 1], HexChars[(Head(bytes) % 16) + 1]>>
         \o hex_encode(Tail(bytes))

\* The keyed digest of a whole byte sequence, as upload and download report it.
KeyedDigestHex(key, bytes) ==
    hex_encode(ChunkedHash_finalize(
        ChunkedHash_update(ChunkedHash_keyed(key), BufOfBytes(bytes))))

\* ---------------------------------------------------------------- keys
\* hex::decode: the value of one hex digit, either case; -1 for any other char.
HexVal(c) ==
    LET lower == {i \in 1..16 : HexChars[i] = c}
        upper == {i \in 11..16 : <<"A", "B", "C", "D", "E", "F">>[i - 10] = c}
    IN  IF lower # {} THEN (CHOOSE i \in lower : TRUE) - 1
        ELSE IF upper # {} THEN (CHOOSE i \in upper : TRUE) - 1
        ELSE -1

RECURSIVE hex_decode_pairs(_)
hex_decode_pairs(str) ==
    IF str = <<>> THEN [ok |-> TRUE, bytes |-> <<>>]
    ELSE LET hi == HexVal(str[1])
             lo == HexVal(str[2])
             rest == hex_decode_pairs(SubSeq(str, 3, Len(str)))
         IN  IF hi < 0 \/ lo < 0 \/ ~rest.ok
             THEN [ok |-> FALSE, bytes |-> <<>>]
             ELSE [ok |-> TRUE, bytes |-> <<hi * 16 + lo>> \o rest.bytes]

\* hex::decode: fails on an odd length or on a char that is no hex digit.
hex_decode(str) ==
    IF Len(str) % 2 # 0 THEN [ok |-> FALSE, bytes |-> <<>>]
    ELSE hex_decode_pairs(str)

\* sodium_malloc: a fresh guarded buffer, filled with the 0xdb garbage byte
\* until written; the pointer is its index in the heap.
sodium_malloc(h, size) ==
    Append(h, [data |-> [i \in 1..size |-> 219], live |-> TRUE, frees |-> 0])

\* sodium_free: the buffer is wiped and released.
sodium_free(h, p) ==
    [h EXCEPT ![p] = [data |-> <<>>, live |-> FALSE, frees |-> @.frees + 1]]

\* Writing `src` at the start of buffer p (copy_nonoverlapping, crypto_kdf_keygen).
heap_write(h, p, src) == [h EXCEPT ![p].data = src]

\* Result shapes of MasterKey constructors.
KeyErr(e, h) == [kind |-> "err", err |-> e, heap |-> h, ptr |-> 0]
KeyOk(h, p) == [kind |-> "ok", err |-> "", heap |-> h, ptr |-> p]

\* MasterKey::new: allocate, then crypto_kdf_keygen fills in random bytes.
MasterKey_new(h, random, alloc_ok) ==
    IF ~alloc_ok THEN KeyErr("alloc", h)
    ELSE KeyOk(heap_write(sodium_malloc(h, MASTER_KEY_SIZE), Len(h) + 1, random),
               Len(h) + 1)

\* Variant: the decoded length is not checked before the copy.
MasterKey_from_NoSizeCheck(h, hex, alloc_ok) ==
    LET d == hex_decode(hex) IN
    IF ~d.ok THEN KeyErr("hex", h)
    ELSE IF ~alloc_ok THEN KeyErr("alloc", h)
    ELSE KeyOk(heap_write(sodium_malloc(h, MASTER_KEY_SIZE), Len(h) + 1, d.bytes),
               Len(h) + 1)

\* MasterKey::from(hex): decode, check the size, allocate, copy.
MasterKey_from(h, hex, alloc_ok) ==
    LET d == hex_decode(hex) IN
    IF ~d.ok THEN KeyErr("hex", h)
    ELSE IF Len(d.bytes) # MASTER_KEY_SIZE THEN KeyErr("size", h)
    ELSE IF ~alloc_ok THEN KeyErr("alloc", h)
    ELSE KeyOk(heap_write(sodium_malloc(h, MASTER_KEY_SIZE), Len(h) + 1, d.bytes),
               Len(h) + 1)

\* Variant: the copy loop stops one byte before the end of the ctx buffer.
ContextBuffer_Short(context) ==
    [i \in 1..CONTEXT_SIZE |->
        IF i <= Len(context) /\ i < CONTEXT_SIZE THEN context[i] ELSE 0]

\* derive_subkey: the context copied into the zeroed fixed-size ctx buffer
\* (`for i in 0..min(context.len(), ctx.len())`).
ContextBuffer(context) ==
    [i \in 1..CONTEXT_SIZE |-> IF i <= Len(context) THEN context[i] ELSE 0]

RECURSIVE Positional(_, _)
Positional(acc, digits) ==
    IF digits = <<>> THEN acc
    ELSE Positional((acc * 4 + Head(digits)) % 256, Tail(digits))

\* crypto_kdf_derive_from_key: subkey_len bytes out of (subkey_id, ctx, key).
\* The library's keyed BLAKE2b is replaced by a mix that is collision-free on
\* the ids, contexts and keys the model draws.
crypto_kdf_derive_from_key(subkey_len, subkey_id, ctx, key) ==
    LET v == (Positional(subkey_id, ctx) + generichash_update(0, key)) % 256
    IN  [i \in 1..subkey_len |-> (v * i + 7 * (i - 1)) % 256]

\* Variant: the KDF is handed the address of the key field instead of the
\* buffer it points to.
derive_subkey_UsesPointer(h, p, subkey_len, subkey_id, context, rc) ==
    IF rc # 0 THEN [kind |-> "err", out |-> [i \in 1..subkey_len |-> 0]]
    ELSE [kind |-> "ok",
          out |-> crypto_kdf_derive_from_key(subkey_len, subkey_id,
                                             ContextBuffer(context), <<p>>)]

\* MasterKey::derive_subkey: fills the caller's buffer, or fails when the
\* library call returns non-zero.
derive_subkey(h, p, subkey_len, subkey_id, context, rc) ==
    IF rc # 0 THEN [kind |-> "err", out |-> [i \in 1..subkey_len |-> 0]]
    ELSE [kind |-> "ok",
          out |-> crypto_kdf_derive_from_key(subkey_len, subkey_id,
                                             ContextBuffer(context), h[p].data)]

\* HashKey::new: derive_subkey into a zeroed [u8; HASH_KEY_SIZE].
HashKey_new(h, p, keyid, context, rc) ==
    LET r == derive_subkey(h, p, HASH_KEY_SIZE, keyid, context, rc) IN
    [kind |-> r.kind, key |-> [opaque |-> r.out]]

\* The context aws_load_from_config derives the file hash key with ("filehash",
\* exactly CONTEXT_SIZE chars in the source), as char codes.
FileHashContext == [i \in 1..CONTEXT_SIZE |-> 1 + (i % 2)]

\* ---------------------------------------------------------------- config
\* AwsConfig, and its serialized form in CloudProviderConfig.data: the pickle
\* holds every field name and value in the clear.
AwsConfig(secret, master_key) ==
    [s3_bucket |-> "bucket", aws_region |-> "region", aws_access_key_id |-> "keyid",
     aws_secret_access_key |-> secret, master_key |-> master_key]

\* serde_pickle::to_writer in create_aws_config.
Pickle(c) ==
    <<"dict", "s3_bucket", c.s3_bucket, "aws_region", c.aws_region,
      "aws_access_key_id", c.aws_access_key_id,
      "aws_secret_access_key", c.aws_secret_access_key,
      "master_key", c.master_key, "stop">>

\* serde_pickle::from_reader: fails unless the blob is a pickled AwsConfig.
Unpickle(data) ==
    IF /\ Len(data) = 12
       /\ <<data[1], data[2], data[4], data[6], data[8], data[10], data[12]>> =
          <<"dict", "s3_bucket", "aws_region", "aws_access_key_id",
            "aws_secret_access_key", "master_key", "stop">>
    THEN [ok |-> TRUE,
          cfg |-> [s3_bucket |-> data[3], aws_region |-> data[5],
                   aws_access_key_id |-> data[7], aws_secret_access_key |-> data[9],
                   master_key |-> data[11]]]
    ELSE [ok |-> FALSE, cfg |-> AwsConfig("", <<>>)]

\* impl Debug for AwsConfig: the two secrets print as "*****".
Debug_AwsConfig(c) ==
    <<"AwsConfig", "s3_bucket", c.s3_bucket, "aws_region", c.aws_region,
      "aws_access_key_id", c.aws_access_key_id,
      "aws_secret_access_key", "*****", "master_key", "*****">>

\* impl Debug for MasterKey.
Debug_MasterKey(p) == <<"MasterKey", "opaque", "*****">>

\* impl Debug for HashKey.
Debug_HashKey(k) == <<"ChunkedHashKey", "opaque", "*****">>

\* #[derive(Debug)] on CloudProviderConfig: Bytes prints its content.
Debug_CloudProviderConfig(c) == <<"CloudProviderConfig", "data">> \o c.data

\* ---------------------------------------------------------------- state
VARIABLES
    pc,              \* the pending `.await` of the running operation, or idle/returned/cancelled
    op,              \* "none", "upload" or "download": the operation pc belongs to
    caller,          \* "api": a direct CloudProvider call; "run": cloud::run
    aws,             \* the AWS provider: [bucket, master_key, file_hash_key]
    sodium,          \* the crypto library's process-wide state: [ready, inits]
    heap,            \* guarded allocations of sodium_malloc, by pointer
    config,          \* the CloudProviderConfig handed to load_from_config
    spans,           \* what tracing's #[instrument] recorded: function and arguments
    cryptolog,       \* history: crypto calls in the order they ran
    handles,         \* MasterKey / SecureMemory values a direct caller still owns
    derived,         \* the most recent derive_subkey results of a direct caller
    last_from,       \* the most recent MasterKey::from call and its outcome
    ht,              \* a ChunkedHash driven directly: [stage, key, input, pos, hash, digest]
    source,          \* bytes of the file at the upload `path`
    storage_id,      \* Uuid generated by s3_upload_file / StorageId given to download
    filePos,         \* read cursor of the opened source File
    filesize,        \* send_parts: filesize
    hash,            \* the ChunkedHash of the running transfer
    parts,           \* send_parts: CompletedMultipartUpload builder
    partnum,         \* send_parts: loop counter
    buffer,          \* send_parts: BytesMut buffer / frozen chunk in flight
    send_err,        \* s3_upload_file: e of the Err(e) arm while abort is pending
    upload_result,   \* what s3_upload_file returned
    session,         \* backend: the multipart session of storage_id
    store,           \* backend: completed objects by key
    expected,        \* download arguments: [hash, size]
    resp,            \* download: get_object output [content_length, body]
    bytes,           \* download: the body chunk being written
    impl_result,     \* download: result of s3_download_file_impl
    download_result, \* what s3_download_file returned
    dest,            \* file system: the file at destination_path
    hist,            \* history: calls issued and responses received, in order
    fed,             \* history: every byte given to hash.update, in order
    received,        \* history: body chunks delivered by the backend, in order
    faults           \* history: some backend or file call failed or misreported

vars == <<pc, op, caller, aws, sodium, heap, config, spans, cryptolog, handles,
          derived, last_from, ht, source, storage_id, filePos, filesize, hash, parts,
          partnum, buffer, send_err, upload_result, session, store, expected, resp,
          bytes, impl_result, download_result, dest, hist, fed, received, faults>>

cryptoVars == <<sodium, heap, config, spans, cryptolog, handles, derived, last_from, ht>>
transferVars == <<pc, op, caller, source, storage_id, filePos, filesize, hash, parts,
                  partnum, buffer, send_err, upload_result, session, store, expected,
                  resp, bytes, impl_result, download_result, dest, hist, fed, received,
                  faults>>
uploadLocals == <<filePos, filesize, hash, parts, partnum, buffer, send_err>>
downloadVars == <<expected, resp, bytes, impl_result, download_result, dest, received>>

NoResult == [kind |-> "none"]
Err(e) == [kind |-> "err", err |-> e]
NoObject == [exists |-> FALSE, data |-> <<>>]
Object(d) == [exists |-> TRUE, data |-> d]
NoSession == [state |-> "none", parts |-> <<>>]
NoHash == [state |-> 0]
NoResp == [content_length |-> 0, body |-> <<>>]
Ev(o, n) == [op |-> o, part |-> n]

NoProvider == [bucket |-> "", master_key |-> 0, file_hash_key |-> [opaque |-> <<>>]]
NoConfig == [data |-> <<>>]
NoHashTest == [stage |-> "none", key |-> <<>>, input |-> <<>>, pos |-> 0,
               hash |-> [state |-> 0], digest |-> <<>>]
NoFrom == [hex |-> <<>>, alloc_ok |-> TRUE, kind |-> "none", err |-> "", ptr |-> 0,
           before |-> 0]

\* Master keys a configuration may carry: one repeated byte each.
ConfigKeys == {[i \in 1..MASTER_KEY_SIZE |-> k] : k \in KeyBytes}

\* CloudProviderConfig values: pickled AwsConfigs with a usable master key,
\* one whose master key is no hex string, and a blob that is no pickle.
ConfigsWith(secrets) ==
    {[data |-> Pickle(AwsConfig(sec, hex_encode(k)))] : sec \in secrets, k \in ConfigKeys}
    \cup {[data |-> Pickle(AwsConfig(sec, <<"x", "x">>))] : sec \in secrets}
    \cup {[data |-> <<"junk">>]}

\* The process before load_from_config: nothing allocated, no transfer running.
InitWith(configs) ==
    /\ config \in configs
    /\ aws = NoProvider
    /\ sodium = [ready |-> FALSE, inits |-> 0]
    /\ heap = <<>>
    /\ spans = <<>>
    /\ cryptolog = <<>>
    /\ handles = [keys |-> {}, mems |-> {}]
    /\ derived = <<>>
    /\ last_from = NoFrom
    /\ ht = NoHashTest

\* No transfer has been started.
TransferInit ==
    /\ pc = "start"
    /\ op = "none"
    /\ caller = "api"
    /\ source = <<>>
    /\ storage_id = "u1"
    /\ filePos = 0
    /\ filesize = 0
    /\ hash = NoHash
    /\ parts = <<>>
    /\ partnum = 0
    /\ buffer = <<>>
    /\ send_err = ""
    /\ upload_result = NoResult
    /\ session = NoSession
    /\ store = [k \in Uuids |-> NoObject]
    /\ expected = [hash |-> <<>>, size |-> 0]
    /\ resp = NoResp
    /\ bytes = <<>>
    /\ impl_result = NoResult
    /\ download_result = NoResult
    /\ dest = NoObject
    /\ hist = <<>>
    /\ fed = <<>>
    /\ received = <<>>
    /\ faults = FALSE

Init == InitWith(ConfigsWith({"secret1"})) /\ TransferInit

\* A process that uses the crypto types directly and loads no configuration.
InitDirect == InitWith({NoConfig}) /\ TransferInit

\* ---------------------------------------------------------------- provider
\* crate::crypto::init: one-time initialisation of the library; a repeated
\* call finds it initialised and changes nothing but the call count.
crypto_init(s) == [ready |-> TRUE, inits |-> s.inits + 1]

\* crate::crypto::init called by a test or an embedding program, `times`
\* times at most.
KeysInit(times) ==
    /\ sodium.inits < times
    /\ sodium' = crypto_init(sodium)
    /\ cryptolog' = Append(cryptolog, "init")
    /\ UNCHANGED <<aws, heap, config, spans, handles, derived, last_from, ht,
                   transferVars>>

\* Variant: the library is initialised after the master key is imported.
LoadCalls_InitLate(unpickled, key_made, derived_ok) ==
    (IF unpickled THEN <<"MasterKey::from">> ELSE <<>>)
    \o <<"init">>
    \o (IF unpickled /\ key_made THEN <<"derive_subkey">> ELSE <<>>)
    \o (IF unpickled /\ key_made /\ ~derived_ok THEN <<"drop">> ELSE <<>>)

\* The crypto calls aws_load_from_config makes, in order, given how far it got.
LoadCalls(unpickled, key_made, derived_ok) ==
    <<"init">>
    \o (IF unpickled THEN <<"MasterKey::from">> ELSE <<>>)
    \o (IF unpickled /\ key_made THEN <<"derive_subkey">> ELSE <<>>)
    \o (IF unpickled /\ key_made /\ ~derived_ok THEN <<"drop">> ELSE <<>>)

\* Variant: the master key made before a failing HashKey::new is forgotten.
LoadHeap_Leak(k, derived_ok) == k.heap

\* The heap after aws_load_from_config: a master key made before a failing
\* HashKey::new is dropped by the `?` return.
LoadHeap(k, derived_ok) ==
    IF k.kind = "ok" /\ ~derived_ok THEN sodium_free(k.heap, k.ptr) ELSE k.heap

\* aws_load_from_config (no .await suspends inside it): the instrumented span
\* records the argument, the library is initialised, the config unpickled,
\* the master key imported and the file hash key derived from it.
LoadFromConfig ==
    /\ pc = "start"
    /\ \E alloc_ok \in BOOLEAN, rc \in {0, -1} :
        LET u == Unpickle(config.data)
            k == IF u.ok THEN MasterKey_from(heap, u.cfg.master_key, alloc_ok)
                 ELSE KeyErr("pickle", heap)
            hk == IF k.kind = "ok"
                  THEN HashKey_new(k.heap, k.ptr, 1, FileHashContext, rc)
                  ELSE [kind |-> "err", key |-> NoProvider.file_hash_key]
        IN  /\ cryptolog' = cryptolog \o LoadCalls(u.ok, k.kind = "ok", hk.kind = "ok")
            /\ heap' = LoadHeap(k, hk.kind = "ok")
            /\ IF hk.kind = "ok"
               THEN /\ aws' = [bucket |-> u.cfg.s3_bucket, master_key |-> k.ptr,
                               file_hash_key |-> hk.key]
                    /\ pc' = "idle"
               ELSE /\ aws' = aws
                    /\ pc' = "load_failed"
    /\ spans' = Append(spans, [fn |-> "aws_load_from_config", arg |-> config,
                               args |-> Debug_CloudProviderConfig(config)])
    /\ sodium' = crypto_init(sodium)
    /\ config' = NoConfig
    /\ UNCHANGED <<op, caller, handles, derived, last_from, ht, source, storage_id,
                   uploadLocals, upload_result, session, store, downloadVars, hist,
                   fed, received, faults>>

\* ---------------------------------------------------------------- upload
\* s3_upload_file returns: its locals (file, buffer, hash, parts) are dropped.
UploadReturn(result) ==
    /\ pc' = "uploaded"
    /\ upload_result' = result
    /\ filePos' = 0 /\ filesize' = 0 /\ hash' = NoHash /\ parts' = <<>>
    /\ partnum' = 0 /\ buffer' = <<>> /\ send_err' = ""

\* A caller invokes upload_file(path): the uuid is generated and File::open is pending.
UploadFile ==
    /\ pc = "idle"
    /\ \E f \in Files, id \in Uuids, c \in {"api", "run"} :
        /\ source' = f
        /\ storage_id' = id
        /\ caller' = c
    /\ pc' = "open"
    /\ op' = "upload"
    /\ hist' = hist \o <<Ev("open", 0)>>
    /\ UNCHANGED <<aws, cryptoVars, uploadLocals, upload_result, session, store, downloadVars,
                   fed, faults>>

\* File::open succeeded; create_multipart_upload is issued.
OpenOk ==
    /\ pc = "open"
    /\ filePos' = 0
    /\ pc' = "create"
    /\ hist' = hist \o <<Ev("create", 0)>>
    /\ UNCHANGED <<op, caller, aws, cryptoVars, source, storage_id, filesize, hash, parts, partnum,
                   buffer, send_err, upload_result, session, store, downloadVars,
                   fed, faults>>

\* File::open failed: `?` returns the error.
OpenErr ==
    /\ pc = "open"
    /\ UploadReturn(Err("open"))
    /\ faults' = TRUE
    /\ UNCHANGED <<op, caller, aws, cryptoVars, source, storage_id, session, store, downloadVars,
                   hist, fed>>

\* create_multipart_upload succeeded; send_parts starts: locals are initialised,
\* iteration partnum = 1 allocates its buffer and issues the first read_buf.
CreateOk ==
    /\ pc = "create"
    /\ session' = [state |-> "open", parts |-> <<>>]
    /\ filesize' = 0
    /\ hash' = ChunkedHash_keyed(aws.file_hash_key)
    /\ parts' = <<>>
    /\ partnum' = 1
    /\ buffer' = <<>>
    /\ pc' = "read"
    /\ hist' = hist \o <<Ev("created", 0), Ev("read", 1)>>
    /\ UNCHANGED <<op, caller, aws, cryptoVars, source, storage_id, filePos, send_err,
                   upload_result, store, downloadVars, fed, faults>>

\* Variant: a failed create_multipart_upload is handled like a failed
\* send_parts, with an abort call.
CreateErr_Abort ==
    /\ pc = "create"
    /\ send_err' = "create"
    /\ hist' = hist \o <<Ev("abort", 0)>>
    /\ pc' = "abort"
    /\ faults' = TRUE
    /\ UNCHANGED <<op, caller, aws, cryptoVars, source, storage_id, filePos, filesize, hash,
                   parts, partnum, buffer, upload_result, session, store, downloadVars,
                   fed>>

\* create_multipart_upload failed: `?` returns the error, nothing else is called.
CreateErr ==
    /\ pc = "create"
    /\ UploadReturn(Err("create"))
    /\ faults' = TRUE
    /\ UNCHANGED <<op, caller, aws, cryptoVars, source, storage_id, session, store, downloadVars,
                   hist, fed>>

\* Variant: every read_buf result is sent as a part of its own (no collation).
BufferHasRoom_NoCollation(buf) == Len(buf) < 1

\* `while buffer.len() < buffer.capacity()`: the buffer still has room
\* (BytesMut::with_capacity(CHUNK_SIZE) has capacity CHUNK_SIZE).
BufferHasRoom(buf) == Len(buf) < CHUNK_SIZE

\* Variant: the part counter advances by two.
NextPartnum_Skip(n) == n + 2

\* The part number the next loop iteration uses (`for partnum in 1..`).
NextPartnum(n) == n + 1

\* CompletedPart::builder().set_e_tag(upload_resp.e_tag).part_number(partnum).
CompletedPart(tag, n) == [e_tag |-> tag, part_number |-> n]

\* Variant: the chunk is counted and sent but not fed to the hash.
SendChunk_NotHashed(chunk) ==
    /\ buffer' = chunk
    /\ filesize' = filesize + Len(chunk)
    /\ hash' = hash
    /\ fed' = fed \o chunk
    /\ hist' = hist \o <<Ev("hash", partnum), Ev("upload_part", partnum)>>
    /\ pc' = "upload_part"
    /\ UNCHANGED <<parts, partnum, send_err, upload_result>>

\* Variant: filesize is overwritten with the chunk length instead of accumulated.
SendChunk_SizeNotAccumulated(chunk) ==
    /\ buffer' = chunk
    /\ filesize' = Len(chunk)
    /\ hash' = ChunkedHash_update(hash, BufOfBytes(chunk))
    /\ fed' = fed \o chunk
    /\ hist' = hist \o <<Ev("hash", partnum), Ev("upload_part", partnum)>>
    /\ pc' = "upload_part"
    /\ UNCHANGED <<parts, partnum, send_err, upload_result>>

\* The read loop ended with a non-empty buffer: freeze it, count it, hash it,
\* then issue upload_part for it.
SendChunk(chunk) ==
    /\ buffer' = chunk
    /\ filesize' = filesize + Len(chunk)
    /\ hash' = ChunkedHash_update(hash, BufOfBytes(chunk))
    /\ fed' = fed \o chunk
    /\ hist' = hist \o <<Ev("hash", partnum), Ev("upload_part", partnum)>>
    /\ pc' = "upload_part"
    /\ UNCHANGED <<parts, partnum, send_err, upload_result>>

\* Variant: a read of 0 bytes into an empty buffer does not end the loop; the
\* read is issued again.
SendComplete_Spin ==
    /\ buffer' = <<>>
    /\ UNCHANGED <<pc, hist, filesize, hash, parts, partnum, send_err, upload_result, fed>>

\* The read loop ended with an empty buffer: send_parts returns Ok and
\* s3_upload_file issues complete_multipart_upload with the built part list.
SendComplete ==
    /\ buffer' = <<>>
    /\ hist' = hist \o <<Ev("complete", Len(parts))>>
    /\ pc' = "complete"
    /\ UNCHANGED <<filesize, hash, parts, partnum, send_err, upload_result, fed>>

\* Variant: the failure ends the part loop like end-of-file, and the session
\* is completed with the parts sent so far.
SendPartsFailed_Complete(e) ==
    /\ send_err' = ""
    /\ hist' = hist \o <<Ev(e, partnum), Ev("complete", Len(parts))>>
    /\ pc' = "complete"
    /\ faults' = TRUE
    /\ UNCHANGED <<filesize, hash, parts, partnum, buffer, upload_result, fed>>

\* send_parts returned Err(e): s3_upload_file issues abort_multipart_upload.
SendPartsFailed(e) ==
    /\ send_err' = e
    /\ hist' = hist \o <<Ev(e, partnum), Ev("abort", 0)>>
    /\ pc' = "abort"
    /\ faults' = TRUE
    /\ UNCHANGED <<filesize, hash, parts, partnum, buffer, upload_result, fed>>

\* file.read_buf returned n > 0 bytes.
ReadSome ==
    /\ pc = "read"
    /\ \E n \in 1..Min(MaxFrag, Min(Len(source) - filePos, CHUNK_SIZE - Len(buffer))) :
        LET buf == buffer \o SubSeq(source, filePos + 1, filePos + n) IN
        /\ filePos' = filePos + n
        /\ IF BufferHasRoom(buf)
           THEN /\ buffer' = buf
                /\ UNCHANGED <<pc, filesize, hash, parts, partnum, send_err,
                               upload_result, fed, hist>>
           ELSE SendChunk(buf)
    /\ UNCHANGED <<op, caller, aws, cryptoVars, source, storage_id, session, store, downloadVars,
                   faults>>

\* file.read_buf returned 0: end of file, the inner loop breaks.
ReadEof ==
    /\ pc = "read"
    /\ filePos = Len(source)
    /\ IF buffer = <<>> THEN SendComplete ELSE SendChunk(buffer)
    /\ UNCHANGED <<op, caller, aws, cryptoVars, source, storage_id, filePos, session, store,
                   downloadVars, faults>>

\* file.read_buf failed.
ReadErr ==
    /\ pc = "read"
    /\ SendPartsFailed("read_err")
    /\ UNCHANGED <<op, caller, aws, cryptoVars, source, storage_id, filePos, session, store,
                   downloadVars>>

\* The backend's tag for a stored part (S3: a digest of the part body).
ETag(n, body) == <<n>> \o body

\* upload_part succeeded: the backend holds the part and returned its tag; the
\* descriptor is recorded and the next iteration issues its first read_buf.
UploadPartOk ==
    /\ pc = "upload_part"
    /\ LET tag == ETag(partnum, buffer) IN
        /\ session' = [session EXCEPT !.parts =
               @ \o <<[part_number |-> partnum, body |-> buffer, e_tag |-> tag]>>]
        /\ parts' = parts \o <<CompletedPart(tag, partnum)>>
    /\ partnum' = NextPartnum(partnum)
    /\ buffer' = <<>>
    /\ pc' = "read"
    /\ hist' = hist \o <<Ev("part_done", partnum), Ev("read", NextPartnum(partnum))>>
    /\ UNCHANGED <<op, caller, aws, cryptoVars, source, storage_id, filePos, filesize, hash,
                   send_err, upload_result, store, downloadVars, fed, faults>>

\* upload_part failed.
UploadPartErr ==
    /\ pc = "upload_part"
    /\ SendPartsFailed("upload_part_err")
    /\ UNCHANGED <<op, caller, aws, cryptoVars, source, storage_id, filePos, session, store,
                   downloadVars>>

\* The body of the stored part with the given number.
PartBody(sparts, n) ==
    LET S == {i \in 1..Len(sparts) : sparts[i].part_number = n} IN
    IF S = {} THEN <<>> ELSE sparts[CHOOSE i \in S : TRUE].body

\* Backend: the object a completed session yields, the listed parts in list order.
RECURSIVE Assemble(_, _)
Assemble(sparts, descr) ==
    IF descr = <<>> THEN <<>>
    ELSE PartBody(sparts, Head(descr).part_number) \o Assemble(sparts, Tail(descr))

\* What s3_upload_file returns on success: (StorageId, FileSize, FileHash).
UploadTriple ==
    [kind |-> "ok", id |-> storage_id, size |-> filesize,
     hash |-> hex_encode(ChunkedHash_finalize(hash))]

\* complete_multipart_upload succeeded: the object exists, the triple is returned.
CompleteOk ==
    /\ pc = "complete"
    /\ session' = [session EXCEPT !.state = "completed"]
    /\ store' = [store EXCEPT ![storage_id] = Object(Assemble(session.parts, parts))]
    /\ UploadReturn(UploadTriple)
    /\ hist' = hist \o <<Ev("completed", 0)>>
    /\ UNCHANGED <<op, caller, aws, cryptoVars, source, storage_id, downloadVars, fed, faults>>

\* Variant: a failed complete call is followed by an abort call.
CompleteErr_ThenAbort ==
    /\ pc = "complete"
    /\ send_err' = "complete"
    /\ hist' = hist \o <<Ev("abort", 0)>>
    /\ pc' = "abort"
    /\ faults' = TRUE
    /\ UNCHANGED <<op, caller, aws, cryptoVars, source, storage_id, filePos, filesize, hash,
                   parts, partnum, buffer, upload_result, session, store, downloadVars,
                   fed>>

\* complete_multipart_upload failed: `?` returns its error.
CompleteErr ==
    /\ pc = "complete"
    /\ UploadReturn(Err("complete"))
    /\ faults' = TRUE
    /\ UNCHANGED <<op, caller, aws, cryptoVars, source, storage_id, session, store, downloadVars,
                   hist, fed>>

\* Variant: a failed abort replaces the original error.
AbortArmResult_AbortError(e, abort_failed) ==
    IF abort_failed THEN Err("abort") ELSE Err(e)

\* The error s3_upload_file returns from its Err(e) arm, whatever abort did.
AbortArmResult(e, abort_failed) == Err(e)

\* abort_multipart_upload succeeded: the session is gone, Err(e) is returned.
AbortOk ==
    /\ pc = "abort"
    /\ session' = [state |-> "aborted", parts |-> <<>>]
    /\ UploadReturn(AbortArmResult(send_err, FALSE))
    /\ hist' = hist \o <<Ev("aborted", 0)>>
    /\ UNCHANGED <<op, caller, aws, cryptoVars, source, storage_id, store, downloadVars, fed, faults>>

\* abort_multipart_upload failed: the failure is logged, Err(e) is returned.
AbortErr ==
    /\ pc = "abort"
    /\ UploadReturn(AbortArmResult(send_err, TRUE))
    /\ hist' = hist \o <<Ev("abort_failed", 0)>>
    /\ UNCHANGED <<op, caller, aws, cryptoVars, source, storage_id, session, store, downloadVars,
                   fed, faults>>

UploadAwaits == {"open", "create", "read", "upload_part", "complete", "abort"}

\* The upload future is dropped at a suspension point: no further code of
\* s3_upload_file runs (it has no drop guard), its locals are dropped.
CancelUpload ==
    /\ pc \in UploadAwaits
    /\ pc' = "cancelled"
    /\ hist' = hist \o <<Ev("cancel", 0)>>
    /\ filePos' = 0 /\ filesize' = 0 /\ hash' = NoHash /\ parts' = <<>>
    /\ partnum' = 0 /\ buffer' = <<>> /\ send_err' = ""
    /\ UNCHANGED <<op, caller, aws, cryptoVars, source, storage_id, upload_result, session, store,
                   downloadVars, fed, faults>>

\* ---------------------------------------------------------------- download
\* Files a caller may find at destination_path before the call.
PriorDest == {NoObject, Object(<<1>>)}

\* Variant: only a negative length is rejected.
SizeMismatch_NegativeOnly(content_length, expected_size) == content_length < 0

\* `resp.content_length() < 0 || resp.content_length() as u64 != expected_size.size`
\* (the cast is evaluated only for a non-negative length, where it is the identity).
SizeMismatch(content_length, expected_size) ==
    content_length < 0 \/ content_length # expected_size

\* Variant: the digest comparison never reports a mismatch.
HashMismatch_Never(actual_hash, expected_hash) == FALSE

\* `actual_hash != expected_hash.hash`
HashMismatch(actual_hash, expected_hash) == actual_hash # expected_hash

\* A caller invokes download_file directly: any StorageId, any object (or none)
\* stored under it, an expected hash and size that may or may not be the
\* object's, and a destination path that may already hold a file.
DownloadFile ==
    /\ pc = "idle"
    /\ \E id \in Uuids, o \in {NoObject} \cup {Object(f) : f \in Files},
          sz \in 0..MaxLen, d \in PriorDest :
        \E h \in {KeyedDigestHex(aws.file_hash_key, f) : f \in {o.data, <<>>, <<1>>}} :
            /\ storage_id' = id
            /\ store' = [store EXCEPT ![id] = o]
            /\ expected' = [hash |-> h, size |-> sz]
            /\ dest' = d
    /\ caller' = "api"
    /\ op' = "download"
    /\ pc' = "get_object"
    /\ hist' = hist \o <<Ev("get_object", 0)>>
    /\ UNCHANGED <<aws, cryptoVars, source, uploadLocals, upload_result, session, resp, bytes,
                   impl_result, download_result, fed, received, faults>>

\* cloud::run: after a successful upload, download_file(id, &hash, &size, ..).
RunDownload ==
    /\ pc = "uploaded"
    /\ caller = "run"
    /\ upload_result.kind = "ok"
    /\ storage_id' = upload_result.id
    /\ expected' = [hash |-> upload_result.hash, size |-> upload_result.size]
    /\ \E d \in PriorDest : dest' = d
    /\ op' = "download"
    /\ pc' = "get_object"
    /\ hist' = hist \o <<Ev("get_object", 0)>>
    /\ fed' = <<>>
    /\ UNCHANGED <<caller, aws, cryptoVars, source, uploadLocals, upload_result, session, store,
                   resp, bytes, impl_result, download_result, received, faults>>

\* Variant: the impl's error is returned without the cleanup.
ImplFailed_NoCleanup(evs, e) ==
    /\ impl_result' = Err(e)
    /\ hist' = hist \o evs
    /\ pc' = "downloaded"
    /\ download_result' = Err(e)

\* Variant: remove_file is issued only when this download created the file.
ImplFailed_CleanupIfCreated(evs, e) ==
    /\ impl_result' = Err(e)
    /\ IF \E i \in DOMAIN hist : hist[i].op = "file_created"
       THEN /\ hist' = hist \o evs \o <<Ev("remove_file", 0)>>
            /\ pc' = "remove_file"
            /\ UNCHANGED download_result
       ELSE /\ hist' = hist \o evs
            /\ pc' = "downloaded"
            /\ download_result' = Err(e)

\* s3_download_file_impl returned Err(e): s3_download_file issues remove_file.
\* (evs: what the impl saw last.)
ImplFailed(evs, e) ==
    /\ impl_result' = Err(e)
    /\ hist' = hist \o evs \o <<Ev("remove_file", 0)>>
    /\ pc' = "remove_file"
    /\ UNCHANGED download_result

\* get_object succeeded: the size check, then File::create is issued.
GetObjectOk ==
    /\ pc = "get_object"
    /\ store[storage_id].exists
    /\ \E cl \in {-1, Len(store[storage_id].data), expected.size} :
        /\ resp' = [content_length |-> cl, body |-> store[storage_id].data]
        /\ faults' = (faults \/ cl # Len(store[storage_id].data))
        /\ IF SizeMismatch(cl, expected.size)
           THEN /\ ImplFailed(<<Ev("got_object", cl)>>, "size_mismatch")
                /\ UNCHANGED hash
           ELSE /\ hash' = ChunkedHash_keyed(aws.file_hash_key)
                /\ hist' = hist \o <<Ev("got_object", cl), Ev("file_create", 0)>>
                /\ pc' = "file_create"
                /\ UNCHANGED <<impl_result, download_result>>
    /\ UNCHANGED <<op, caller, aws, cryptoVars, source, storage_id, filePos, filesize, parts,
                   partnum, buffer, send_err, upload_result, session, store, expected,
                   bytes, dest, fed, received>>

\* get_object failed (no such key, network).
GetObjectErr ==
    /\ pc = "get_object"
    /\ ImplFailed(<<>>, "get_object")
    /\ faults' = TRUE
    /\ UNCHANGED <<op, caller, aws, cryptoVars, source, storage_id, uploadLocals, upload_result,
                   session, store, expected, resp, bytes, dest, fed, received>>

\* File::create succeeded: the file exists and is empty; try_next is issued.
FileCreateOk ==
    /\ pc = "file_create"
    /\ dest' = Object(<<>>)
    /\ hist' = hist \o <<Ev("file_created", 0), Ev("try_next", 0)>>
    /\ pc' = "try_next"
    /\ UNCHANGED <<op, caller, aws, cryptoVars, source, storage_id, uploadLocals, upload_result,
                   session, store, expected, resp, bytes, impl_result, download_result,
                   fed, received, faults>>

\* File::create failed.
FileCreateErr ==
    /\ pc = "file_create"
    /\ ImplFailed(<<>>, "file_create")
    /\ faults' = TRUE
    /\ UNCHANGED <<op, caller, aws, cryptoVars, source, storage_id, uploadLocals, upload_result,
                   session, store, expected, resp, bytes, dest, fed, received>>

\* resp.body.try_next returned Some(bytes): hash.update(bytes.clone()), then
\* file.write_all_buf is issued.
BodyChunk ==
    /\ pc = "try_next"
    /\ \E n \in 1..Min(MaxFrag, Len(resp.body)) :
        LET chunk == SubSeq(resp.body, 1, n) IN
        /\ bytes' = chunk
        /\ resp' = [resp EXCEPT !.body = SubSeq(resp.body, n + 1, Len(resp.body))]
        /\ hash' = ChunkedHash_update(hash, BufOfBytes(chunk))
        /\ fed' = fed \o chunk
        /\ received' = received \o <<chunk>>
    /\ hist' = hist \o <<Ev("chunk", Len(received) + 1), Ev("write", Len(received) + 1)>>
    /\ pc' = "write"
    /\ UNCHANGED <<op, caller, aws, cryptoVars, source, storage_id, filePos, filesize, parts,
                   partnum, buffer, send_err, upload_result, session, store, expected,
                   impl_result, download_result, dest, faults>>

\* resp.body.try_next returned None: file.flush is issued.
BodyEnd ==
    /\ pc = "try_next"
    /\ resp.body = <<>>
    /\ hist' = hist \o <<Ev("flush", 0)>>
    /\ pc' = "flush"
    /\ UNCHANGED <<op, caller, aws, cryptoVars, source, storage_id, uploadLocals, upload_result,
                   session, store, expected, resp, bytes, impl_result, download_result,
                   dest, fed, received, faults>>

\* resp.body.try_next failed.
BodyErr ==
    /\ pc = "try_next"
    /\ ImplFailed(<<>>, "body")
    /\ faults' = TRUE
    /\ UNCHANGED <<op, caller, aws, cryptoVars, source, storage_id, uploadLocals, upload_result,
                   session, store, expected, resp, bytes, dest, fed, received>>

\* file.write_all_buf succeeded: the chunk is appended; try_next is issued.
WriteOk ==
    /\ pc = "write"
    /\ dest' = Object(dest.data \o bytes)
    /\ bytes' = <<>>
    /\ hist' = hist \o <<Ev("try_next", 0)>>
    /\ pc' = "try_next"
    /\ UNCHANGED <<op, caller, aws, cryptoVars, source, storage_id, uploadLocals, upload_result,
                   session, store, expected, resp, impl_result, download_result, fed,
                   received, faults>>

\* file.write_all_buf failed after writing some prefix of the chunk.
WriteErr ==
    /\ pc = "write"
    /\ \E k \in 0..(Len(bytes) - 1) : dest' = Object(dest.data \o SubSeq(bytes, 1, k))
    /\ bytes' = <<>>
    /\ ImplFailed(<<>>, "write")
    /\ faults' = TRUE
    /\ UNCHANGED <<op, caller, aws, cryptoVars, source, storage_id, uploadLocals, upload_result,
                   session, store, expected, resp, fed, received>>

\* s3_download_file returns: the locals of the call are dropped.
DownloadReturn(result) ==
    /\ pc' = "downloaded"
    /\ download_result' = result

\* file.flush succeeded: the digest is finalized, encoded and compared.
FlushOk ==
    /\ pc = "flush"
    /\ IF HashMismatch(hex_encode(ChunkedHash_finalize(hash)), expected.hash)
       THEN ImplFailed(<<>>, "hash_mismatch")
       ELSE /\ impl_result' = [kind |-> "ok"]
            /\ DownloadReturn([kind |-> "ok"])
            /\ hist' = hist \o <<Ev("ok", 0)>>
    /\ UNCHANGED <<op, caller, aws, cryptoVars, source, storage_id, uploadLocals, upload_result,
                   session, store, expected, resp, bytes, dest, fed, received, faults>>

\* file.flush failed.
FlushErr ==
    /\ pc = "flush"
    /\ ImplFailed(<<>>, "flush")
    /\ faults' = TRUE
    /\ UNCHANGED <<op, caller, aws, cryptoVars, source, storage_id, uploadLocals, upload_result,
                   session, store, expected, resp, bytes, dest, fed, received>>

\* remove_file succeeded: the file is gone; the impl's error is returned.
RemoveFileOk ==
    /\ pc = "remove_file"
    /\ dest.exists
    /\ dest' = NoObject
    /\ DownloadReturn(impl_result)
    /\ hist' = hist \o <<Ev("removed", 0)>>
    /\ UNCHANGED <<op, caller, aws, cryptoVars, source, storage_id, uploadLocals, upload_result,
                   session, store, expected, resp, bytes, impl_result, fed, received,
                   faults>>

\* remove_file failed (no such file, or the file could not be deleted): the
\* failure is logged; the impl's error is returned.
RemoveFileErr ==
    /\ pc = "remove_file"
    /\ DownloadReturn(impl_result)
    /\ hist' = hist \o <<Ev("remove_failed", 0)>>
    /\ UNCHANGED <<op, caller, aws, cryptoVars, source, storage_id, uploadLocals, upload_result,
                   session, store, expected, resp, bytes, impl_result, dest, fed,
                   received, faults>>

DownloadAwaits == {"get_object", "file_create", "try_next", "write", "flush",
                   "remove_file"}

\* The download future is dropped at a suspension point: no further code of
\* s3_download_file runs (it has no drop guard).
CancelDownload ==
    /\ pc \in DownloadAwaits
    /\ pc' = "cancelled"
    /\ hist' = hist \o <<Ev("cancel", 0)>>
    /\ hash' = NoHash
    /\ resp' = NoResp
    /\ bytes' = <<>>
    /\ UNCHANGED <<op, caller, aws, cryptoVars, source, storage_id, filePos, filesize, parts,
                   partnum, buffer, send_err, upload_result, session, store, expected,
                   impl_result, download_result, dest, fed, received, faults>>

\* ---------------------------------------------------------------- specification
Next ==
    \/ LoadFromConfig
    \/ UploadFile \/ OpenOk \/ OpenErr \/ CreateOk \/ CreateErr
    \/ ReadSome \/ ReadEof \/ ReadErr \/ UploadPartOk \/ UploadPartErr
    \/ CompleteOk \/ CompleteErr \/ AbortOk \/ AbortErr \/ CancelUpload
    \/ DownloadFile \/ RunDownload \/ GetObjectOk \/ GetObjectErr
    \/ FileCreateOk \/ FileCreateErr \/ BodyChunk \/ BodyEnd \/ BodyErr
    \/ WriteOk \/ WriteErr \/ FlushOk \/ FlushErr \/ RemoveFileOk \/ RemoveFileErr
    \/ CancelDownload

Spec == Init /\ [][Next]_vars

\* One upload by a constructed provider, never cancelled.
NextUpload ==
    \/ LoadFromConfig
    \/ UploadFile \/ OpenOk \/ OpenErr \/ CreateOk \/ CreateErr
    \/ ReadSome \/ ReadEof \/ ReadErr \/ UploadPartOk \/ UploadPartErr
    \/ CompleteOk \/ CompleteErr \/ AbortOk \/ AbortErr

\* cloud::run in a program that may call init itself, before the provider is
\* constructed or at any later time: an upload, then the download of its triple.
NextRun ==
    \/ KeysInit(MaxInit)
    \/ NextUpload
    \/ RunDownload \/ GetObjectOk \/ GetObjectErr
    \/ FileCreateOk \/ FileCreateErr \/ BodyChunk \/ BodyEnd \/ BodyErr
    \/ WriteOk \/ WriteErr \/ FlushOk \/ FlushErr \/ RemoveFileOk \/ RemoveFileErr

SpecRun == Init /\ [][NextRun]_vars

\* The pending call returns: with its result when it does not fail.
UploadCallReturns ==
    OpenOk \/ CreateOk \/ ReadSome \/ ReadEof \/ UploadPartOk \/ CompleteOk \/ AbortOk

\* Every call the upload awaits eventually returns: its failure may happen at
\* any time, and when it does not, its result arrives.
SpecUploadLive == Init /\ [][NextUpload]_vars /\ WF_vars(UploadCallReturns)

\* ---------------------------------------------------------------- keys, driven directly
\* One of the sample master keys.
OneKey == [i \in 1..MASTER_KEY_SIZE |-> 1]

\* Hex strings of the sample master keys.
ValidHex == {hex_encode(k) : k \in ConfigKeys}

\* Strings handed to MasterKey::from: every string over two hex digits (one
\* lower case, one upper case) and a char that is no hex digit.
HexInputs == UNION {[1..n -> {"0", "A", "x"}] : n \in 0..(2 * MASTER_KEY_SIZE + 2)}

\* Context strings around the size of the ctx field: shorter, exact and
\* longer by one, ending in NUL or in another char.
Contexts ==
    {[i \in 1..n |-> IF i < n THEN 1 ELSE last] :
        n \in (CONTEXT_SIZE - 1)..(CONTEXT_SIZE + 1), last \in 0..1}

\* let key = MasterKey::new(): kept by the caller when Ok.
MasterKeyNew(room) ==
    /\ sodium.ready
    /\ Len(heap) < room
    /\ \E random \in {OneKey}, alloc_ok \in BOOLEAN :
        LET r == MasterKey_new(heap, random, alloc_ok) IN
        /\ heap' = r.heap
        /\ handles' = IF r.kind = "ok"
                      THEN [handles EXCEPT !.keys = @ \cup {r.ptr}] ELSE handles
    /\ UNCHANGED <<aws, sodium, config, spans, cryptolog, derived, last_from, ht,
                   transferVars>>

\* let key = MasterKey::from(hex): kept by the caller when Ok. The call is
\* made while the heap has room; with calls = 1 it is made once only.
MasterKeyFromHex(inputs, allocs, room, calls) ==
    /\ sodium.ready
    /\ Len(heap) < room
    /\ calls = 1 => last_from = NoFrom
    /\ \E hex \in inputs, alloc_ok \in allocs :
        LET r == MasterKey_from(heap, hex, alloc_ok) IN
        /\ heap' = r.heap
        /\ handles' = IF r.kind = "ok"
                      THEN [handles EXCEPT !.keys = @ \cup {r.ptr}] ELSE handles
        /\ last_from' = [hex |-> hex, alloc_ok |-> alloc_ok, kind |-> r.kind,
                         err |-> r.err, ptr |-> r.ptr, before |-> Len(heap)]
    /\ UNCHANGED <<aws, sodium, config, spans, cryptolog, derived, ht, transferVars>>

\* let m = SecureMemory::new(size).
SecureMemoryNew(room) ==
    /\ sodium.ready
    /\ Len(heap) < room
    /\ \E size \in {MASTER_KEY_SIZE + 1}, alloc_ok \in BOOLEAN :
        IF alloc_ok
        THEN /\ heap' = sodium_malloc(heap, size)
             /\ handles' = [handles EXCEPT !.mems = @ \cup {Len(heap) + 1}]
        ELSE UNCHANGED <<heap, handles>>
    /\ UNCHANGED <<aws, sodium, config, spans, cryptolog, derived, last_from, ht,
                   transferVars>>

\* m.as_mut() filled as tests::create_fill_and_drop does: slice[i] = i % 100.
SecureMemoryFill ==
    /\ \E p \in handles.mems :
        heap' = heap_write(heap, p, [i \in 1..Len(heap[p].data) |-> (i - 1) % 100])
    /\ UNCHANGED <<aws, sodium, config, spans, cryptolog, handles, derived, last_from,
                   ht, transferVars>>

\* key.derive_subkey(&mut out, id, context) on a key the caller holds, with a
\* zeroed out buffer of HASH_KEY_SIZE bytes; `keep` calls are made and remembered.
DeriveSubkey(keep, ids, contexts, rcs) ==
    /\ sodium.ready
    /\ Len(derived) < keep
    /\ \E p \in handles.keys, id \in ids, context \in contexts, rc \in rcs :
        LET r == derive_subkey(heap, p, HASH_KEY_SIZE, id, context, rc) IN
        derived' = Append(derived,
                          [ptr |-> p, key |-> heap[p].data, live |-> heap[p].live,
                           keyid |-> id, context |-> context, kind |-> r.kind,
                           out |-> r.out])
    /\ UNCHANGED <<aws, sodium, heap, config, spans, cryptolog, handles, last_from, ht,
                   transferVars>>

\* A MasterKey the caller holds goes out of scope: Drop for MasterKey.
DropMasterKey ==
    /\ \E p \in handles.keys :
        /\ heap' = sodium_free(heap, p)
        /\ handles' = [handles EXCEPT !.keys = @ \ {p}]
    /\ UNCHANGED <<aws, sodium, config, spans, cryptolog, derived, last_from, ht,
                   transferVars>>

\* A SecureMemory the caller holds goes out of scope: Drop for SecureMemory.
DropSecureMemory ==
    /\ \E p \in handles.mems :
        /\ heap' = sodium_free(heap, p)
        /\ handles' = [handles EXCEPT !.mems = @ \ {p}]
    /\ UNCHANGED <<aws, sodium, config, spans, cryptolog, derived, last_from, ht,
                   transferVars>>

\* The provider is dropped while no transfer runs: its master_key field is
\* dropped with it.
DropProvider ==
    /\ pc = "idle"
    /\ aws # NoProvider
    /\ heap' = sodium_free(heap, aws.master_key)
    /\ aws' = NoProvider
    /\ pc' = "dropped"
    /\ UNCHANGED <<op, caller, sodium, config, spans, cryptolog, handles, derived,
                   last_from, ht, source, storage_id, uploadLocals, upload_result,
                   session, store, downloadVars, hist, fed, received, faults>>

\* One MasterKey::from call on a fresh heap, then the drop of its result.
NextFrom ==
    \/ KeysInit(1)
    \/ MasterKeyFromHex(HexInputs, BOOLEAN, 1, 1)
    \/ DropMasterKey

SpecFrom == InitDirect /\ [][NextFrom]_vars

\* Master keys imported from hex and subkeys derived from them.
NextDerive ==
    \/ KeysInit(1)
    \/ MasterKeyFromHex(ValidHex, {TRUE}, MaxAlloc, MaxAlloc)
    \/ DeriveSubkey(2, 1..MaxKeyId, Contexts, {0})

SpecDerive == InitDirect /\ [][NextDerive]_vars

\* The life cycle of every secure buffer: made by the provider's construction
\* or directly, used, and dropped.
NextKeys ==
    \/ KeysInit(1)
    \/ LoadFromConfig
    \/ DropProvider
    \/ MasterKeyNew(MaxAlloc)
    \/ MasterKeyFromHex({hex_encode(OneKey), <<"x">>}, BOOLEAN, MaxAlloc, MaxAlloc)
    \/ SecureMemoryNew(MaxAlloc)
    \/ SecureMemoryFill
    \/ DeriveSubkey(1, {1}, {FileHashContext}, {0, -1})
    \/ DropMasterKey
    \/ DropSecureMemory

SpecKeys == Init /\ [][NextKeys]_vars

\* ---------------------------------------------------------------- ChunkedHash, driven directly
\* Every way a Buf can present bytes: sequences of non-empty slices.
RECURSIVE Segmentations(_)
Segmentations(b) ==
    IF b = <<>> THEN {<<>>}
    ELSE UNION {{<<SubSeq(b, 1, k)>> \o r : r \in Segmentations(SubSeq(b, k + 1, Len(b)))}
                : k \in 1..Len(b)}

\* Hash keys a direct caller may hold.
TestHashKeys == {[opaque |-> k] : k \in [1..HASH_KEY_SIZE -> KeyBytes]}

\* hash.rs tests: init(), then ChunkedHash::new() or ChunkedHash::keyed(&key)
\* for an input that will be fed in pieces.
HashStart ==
    /\ pc = "start"
    /\ ht.stage = "none"
    /\ sodium' = crypto_init(sodium)
    /\ \E input \in Files :
        \/ ht' = [stage |-> "updating", key |-> <<>>, input |-> input, pos |-> 0,
                  hash |-> ChunkedHash_new, digest |-> <<>>]
        \/ \E key \in TestHashKeys :
              ht' = [stage |-> "updating", key |-> key.opaque, input |-> input,
                     pos |-> 0, hash |-> ChunkedHash_keyed(key), digest |-> <<>>]
    /\ cryptolog' = cryptolog \o <<"init", "ChunkedHash">>
    /\ UNCHANGED <<aws, heap, config, spans, handles, derived, last_from, transferVars>>

\* hash.update(data): the next n input bytes, in any segmentation of the Buf.
HashUpdate ==
    /\ ht.stage = "updating"
    /\ \E n \in 0..(Len(ht.input) - ht.pos) :
        \E data \in Segmentations(SubSeq(ht.input, ht.pos + 1, ht.pos + n)) :
            ht' = [ht EXCEPT !.hash = ChunkedHash_update(ht.hash, data),
                             !.pos = ht.pos + n]
    /\ UNCHANGED <<aws, sodium, heap, config, spans, cryptolog, handles, derived,
                   last_from, transferVars>>

\* hash.finalize(): consumes the state.
HashFinalize ==
    /\ ht.stage = "updating"
    /\ ht' = [ht EXCEPT !.stage = "final", !.digest = ChunkedHash_finalize(ht.hash)]
    /\ UNCHANGED <<aws, sodium, heap, config, spans, cryptolog, handles, derived,
                   last_from, transferVars>>

NextHash == HashStart \/ HashUpdate \/ HashFinalize

SpecHash == InitDirect /\ [][NextHash]_vars

\* ---------------------------------------------------------------- properties
Has(o) == \E i \in DOMAIN hist : hist[i].op = o
Count(o) == Cardinality({i \in DOMAIN hist : hist[i].op = o})
IsPartCall(e) == e.op = "upload_part"
LastEv == IF hist = <<>> THEN Ev("", 0) ELSE hist[Len(hist)]
CeilDiv(a, b) == (a + b - 1) \div b

RECURSIVE Concat(_)
Concat(chunks) == IF chunks = <<>> THEN <<>> ELSE Head(chunks) \o Concat(Tail(chunks))

PartBodies == [k \in DOMAIN session.parts |-> session.parts[k].body]

\* C1: whenever upload_part fails for part N+1 after N parts succeeded, the
\* abort call is issued at once and no complete call is ever issued.
C1_PartFailureAborts ==
    \A i \in DOMAIN hist :
        hist[i].op = "upload_part_err" =>
            /\ hist[i].part = Cardinality({j \in 1..i : hist[j].op = "part_done"}) + 1
            /\ i < Len(hist)
            /\ hist[i + 1].op = "abort"
            /\ ~Has("complete")

C1_Witness ==
    /\ pc = "uploaded"
    /\ \E i \in DOMAIN hist : hist[i] = Ev("upload_part_err", 2)
    /\ Has("abort")

\* C2 as stated: after a download that returned an error no file exists at
\* destination_path.
C2_NoFileAfterError ==
    (pc = "downloaded" /\ download_result.kind = "err") => ~dest.exists

\* C2 amended: every download that returned an error issued remove_file on
\* destination_path after the impl failed and before returning; no file exists
\* there unless that remove_file call itself failed.
C2_CleanupAttempted ==
    (pc = "downloaded" /\ download_result.kind = "err") =>
        /\ download_result = impl_result
        /\ Len(hist) >= 2
        /\ hist[Len(hist) - 1].op = "remove_file"
        /\ LastEv.op \in {"removed", "remove_failed"}
        /\ dest.exists => LastEv.op = "remove_failed"

C2_Witness ==
    /\ pc = "downloaded"
    /\ download_result = Err("hash_mismatch")
    /\ Has("file_created")
    /\ LastEv.op = "removed"
    /\ ~dest.exists

\* C3: a download returns success only if the reported content length equals
\* expected_size, the hex digest of the bytes received equals expected_hash,
\* and the destination file holds exactly the received chunks in order, which
\* is also what was fed to the hash.
C3_SuccessImpliesVerified ==
    download_result.kind = "ok" =>
        /\ \E i \in DOMAIN hist :
              hist[i].op = "got_object" /\ hist[i].part = expected.size
        /\ KeyedDigestHex(aws.file_hash_key, Concat(received)) = expected.hash
        /\ dest = Object(Concat(received))
        /\ fed = Concat(received)

C3_Witness ==
    /\ download_result.kind = "ok"
    /\ caller = "api"
    /\ Len(received) >= 2

\* C4: with no failing or misreporting call, cloud::run's upload returns a
\* triple with which the download succeeds, the destination equals the source
\* byte for byte, FileSize is the source length and FileHash is the keyed
\* digest recomputed over the downloaded file.
C4_RoundTrip ==
    /\ (pc = "uploaded" /\ ~faults) =>
            /\ upload_result.kind = "ok"
            /\ store[upload_result.id] = Object(source)
    /\ (caller = "run" /\ pc = "downloaded" /\ ~faults) =>
            /\ download_result.kind = "ok"
            /\ dest = Object(source)
            /\ upload_result.size = Len(source)
            /\ upload_result.hash = KeyedDigestHex(aws.file_hash_key, dest.data)

C4_Witness ==
    /\ caller = "run"
    /\ pc = "downloaded"
    /\ ~faults
    /\ download_result.kind = "ok"
    /\ Len(source) = MaxLen
    /\ dest = Object(source)

\* C5 as stated: an upload that returns an error after the session was created
\* has issued an abort call for it.
C5_ErrorImpliesAbort ==
    (pc = "uploaded" /\ upload_result.kind = "err" /\ Has("created")) => Has("abort")

\* C6 as stated: an upload cancelled after the session was created has issued
\* an abort call; a download cancelled after the destination file was created
\* has issued remove_file.
C6_CleanupOnCancel ==
    pc = "cancelled" =>
        /\ (op = "upload" /\ Has("created")) => Has("abort")
        /\ (op = "download" /\ Has("file_created")) => Has("remove_file")

\* C7: when send_parts failed with e and the abort call failed too, the upload
\* returns e.
C7_AbortFailureKeepsError ==
    (pc = "uploaded" /\ Has("abort_failed")) =>
        /\ upload_result.kind = "err"
        /\ upload_result.err \in {"read_err", "upload_part_err"}
        /\ Has(upload_result.err)

C7_Witness ==
    /\ pc = "uploaded"
    /\ LastEv.op = "abort_failed"
    /\ upload_result = Err("upload_part_err")

\* C8: parts go out one at a time numbered 1, 2, ..., each hashed right before
\* its upload_part call; a chunk is read only after the previous part's
\* response; the complete call lists the parts in order, part k with the tag
\* the backend returned for part k.
C8_SequentialParts ==
    LET calls == SelectSeq(hist, IsPartCall) IN
    /\ \A k \in DOMAIN calls : calls[k].part = k
    /\ \A i \in DOMAIN hist :
          hist[i].op = "upload_part" =>
              /\ i > 1
              /\ hist[i - 1] = Ev("hash", hist[i].part)
              /\ Cardinality({j \in DOMAIN hist : hist[j] = hist[i - 1]}) = 1
    /\ \A i \in DOMAIN hist :
          (hist[i].op = "read" /\ hist[i].part > 1) =>
              \E j \in 1..(i - 1) : hist[j] = Ev("part_done", hist[i].part - 1)
    /\ pc = "upload_part" =>
          /\ fed = Concat(PartBodies) \o buffer
          /\ Len(session.parts) = partnum - 1
    /\ pc = "read" => Len(session.parts) = partnum - 1
    /\ pc = "complete" =>
          /\ Len(parts) = Len(calls)
          /\ Len(parts) = Len(session.parts)
          /\ \A k \in DOMAIN parts :
                /\ session.parts[k].part_number = k
                /\ parts[k] = [e_tag |-> session.parts[k].e_tag, part_number |-> k]

C8_Witness ==
    /\ pc = "complete"
    /\ Len(parts) = 2
    /\ parts[1].e_tag # parts[2].e_tag

\* C9: a successful upload of L bytes issued exactly ceil(L / CHUNK_SIZE)
\* upload_part calls however the reads were fragmented; an empty file gives no
\* part and the digest of the empty input.
C9_PartCount ==
    upload_result.kind = "ok" =>
        /\ Count("upload_part") = CeilDiv(Len(source), CHUNK_SIZE)
        /\ Len(source) = 0 =>
              upload_result.hash = KeyedDigestHex(aws.file_hash_key, <<>>)
        /\ Len(source) = CHUNK_SIZE => Count("upload_part") = 1
        /\ Len(source) = CHUNK_SIZE + 1 => Count("upload_part") = 2

C9_Witness ==
    /\ pc = "uploaded"
    /\ upload_result.kind = "ok"
    /\ Len(source) = CHUNK_SIZE + 1
    /\ Count("upload_part") = 2

\* C10: when the reported content length is negative or differs from
\* expected_size, the download fails with the size-mismatch error, remove_file
\* being the next call: the destination file was never created and no body
\* chunk was read.
C10_SizeCheckFirst ==
    \A i \in DOMAIN hist :
        (hist[i].op = "got_object"
            /\ (hist[i].part < 0 \/ hist[i].part # expected.size)) =>
            /\ impl_result = Err("size_mismatch")
            /\ i < Len(hist)
            /\ hist[i + 1].op = "remove_file"
            /\ ~Has("file_create")
            /\ ~Has("try_next")
            /\ received = <<>>
            /\ pc = "downloaded" => download_result = Err("size_mismatch")

C10_Witness ==
    /\ pc = "downloaded"
    /\ download_result = Err("size_mismatch")
    /\ \E i \in DOMAIN hist : hist[i].op = "got_object" /\ hist[i].part >= 0

\* The state a fresh ChunkedHash has for the key of the direct test.
HashTestInitial ==
    IF ht.key = <<>> THEN ChunkedHash_new ELSE ChunkedHash_keyed([opaque |-> ht.key])

\* C11: however the input was split into update calls and however each Buf
\* was segmented, the hash state is that of one update over all bytes fed so
\* far, and finalize returns that one update's digest.
C11_BoundaryIndependent ==
    LET whole == ChunkedHash_update(HashTestInitial,
                                    BufOfBytes(SubSeq(ht.input, 1, ht.pos)))
    IN  /\ ht.stage # "none" => ht.hash = whole
        /\ ht.stage = "final" => ht.digest = ChunkedHash_finalize(whole)

C11_Witness ==
    /\ ht.stage = "final"
    /\ ht.pos = MaxLen
    /\ ht.key # <<>>

\* Pairs of remembered derivations that succeeded.
DerivedOk == {i \in 1..Len(derived) : derived[i].kind = "ok"}

\* The fixed-size KDF context field a context string occupies: its first
\* CONTEXT_SIZE bytes, zero-padded.
ContextField(context) ==
    [i \in 1..CONTEXT_SIZE |-> IF i <= Len(context) THEN context[i] ELSE 0]

\* The two subkeys differ, and so do the keyed hashes of any data under them.
Separated(a, b) ==
    /\ a.out # b.out
    /\ \A data \in Files :
        KeyedDigestHex([opaque |-> a.out], data) # KeyedDigestHex([opaque |-> b.out], data)

\* C12 as stated: for one master key, derivations that differ in key id or in
\* the context string yield different keys and different keyed hashes.
C12_AnyDifferenceSeparates ==
    \A i \in DerivedOk, j \in DerivedOk :
        LET a == derived[i]
            b == derived[j]
        IN  (a.ptr = b.ptr /\ (a.keyid # b.keyid \/ a.context # b.context))
                => Separated(a, b)

\* C12 (amended): for one master key, derivations that differ in key id or in
\* the context field (the context's first CONTEXT_SIZE bytes, zero-padded)
\* yield different keys and different keyed hashes; derivations that agree on
\* both yield the same key, however the context strings differ beyond that.
C12_FieldDifferenceSeparates ==
    \A i \in DerivedOk, j \in DerivedOk :
        LET a == derived[i]
            b == derived[j]
        IN  a.ptr = b.ptr =>
                IF a.keyid # b.keyid \/ ContextField(a.context) # ContextField(b.context)
                THEN Separated(a, b)
                ELSE a.out = b.out

C12_Witness ==
    /\ Len(derived) = 2
    /\ derived[1].ptr = derived[2].ptr
    /\ derived[1].keyid = derived[2].keyid
    /\ Len(derived[1].context) = CONTEXT_SIZE
    /\ Len(derived[2].context) = CONTEXT_SIZE
    /\ derived[1].context # derived[2].context
    /\ derived[1].out # derived[2].out

\* A string MasterKey::from must accept: 2 * MASTER_KEY_SIZE hex digits.
ValidKeyHex(hex) ==
    /\ Len(hex) = 2 * MASTER_KEY_SIZE
    /\ \A i \in 1..Len(hex) : HexVal(hex[i]) >= 0

\* The bytes such a string denotes.
DecodedBytes(hex) ==
    [i \in 1..MASTER_KEY_SIZE |-> HexVal(hex[2 * i - 1]) * 16 + HexVal(hex[2 * i])]

\* C13: MasterKey::from fails and allocates nothing when the string is no
\* valid hex or decodes to another length than the key size; for a valid
\* string of the key size it succeeds when the allocation does, and the new
\* buffer holds the decoded bytes.
C13_FromHex ==
    last_from.kind # "none" =>
        /\ ~ValidKeyHex(last_from.hex) =>
              /\ last_from.kind = "err"
              /\ Len(heap) = last_from.before
        /\ (ValidKeyHex(last_from.hex) /\ last_from.alloc_ok) =>
              /\ last_from.kind = "ok"
              /\ Len(heap) = last_from.before + 1
              /\ last_from.ptr = Len(heap)
              /\ heap[last_from.ptr].live =>
                    heap[last_from.ptr].data = DecodedBytes(last_from.hex)
        /\ ~last_from.alloc_ok => last_from.kind = "err" /\ Len(heap) = last_from.before

C13_Witness ==
    /\ last_from.kind = "ok"
    /\ \E i \in 1..Len(last_from.hex) : last_from.hex[i] = "A"
    /\ heap[last_from.ptr].live
    /\ heap[last_from.ptr].data = DecodedBytes(last_from.hex)

\* C14: derivations with the same master key bytes, key id and context fill
\* the output with the same bytes, also when the bytes sit in two MasterKey
\* values imported from the same hex string; a derive_subkey call changes
\* nothing but the remembered output.
C14_Deterministic ==
    /\ [](\A i \in DerivedOk, j \in DerivedOk :
            LET a == derived[i]
                b == derived[j]
            IN  (a.key = b.key /\ a.keyid = b.keyid /\ a.context = b.context)
                    => a.out = b.out)
    /\ [][derived' # derived =>
            UNCHANGED <<aws, sodium, heap, config, spans, cryptolog, handles,
                        last_from, ht, transferVars>>]_vars

C14_Witness ==
    /\ Len(derived) = 2
    /\ derived[1].ptr # derived[2].ptr
    /\ derived[1].key = derived[2].key
    /\ derived[1].keyid = derived[2].keyid
    /\ derived[1].context = derived[2].context
    /\ derived[1].out = derived[2].out

\* The configurations that differ from c at most in their secret bytes: the
\* AWS secret access key and the master key.
SecretVariants(c) ==
    LET u == Unpickle(c.data) IN
    IF u.ok
    THEN {[data |-> Pickle([u.cfg EXCEPT !.aws_secret_access_key = sec,
                                         !.master_key = mk])] :
            sec \in {"secret1", "secret2"}, mk \in ValidHex}
    ELSE {c}

\* C15 as stated: every recorded span argument is the text any configuration
\* with other secret bytes would have produced, and the Debug text of a
\* MasterKey, a HashKey and an AwsConfig does not depend on the secret.
C15_NoKeyMaterialInDiagnostics ==
    /\ \A i \in 1..Len(spans) :
        \A c \in SecretVariants(spans[i].arg) :
            Debug_CloudProviderConfig(c) = spans[i].args
    /\ \A k1 \in TestHashKeys, k2 \in TestHashKeys : Debug_HashKey(k1) = Debug_HashKey(k2)
    /\ \A p1 \in 1..Len(heap), p2 \in 1..Len(heap) : Debug_MasterKey(p1) = Debug_MasterKey(p2)
    /\ \A m1 \in ValidHex, m2 \in ValidHex :
        Debug_AwsConfig(AwsConfig("secret1", m1)) = Debug_AwsConfig(AwsConfig("secret2", m2))

\* The pointer the provider's master_key field owns, if a provider exists.
ProviderOwned == IF aws = NoProvider THEN {} ELSE {aws.master_key}

\* C16: every secure buffer is live exactly while one MasterKey, SecureMemory
\* or provider owns it, is released once when its owner is dropped or an
\* error return abandons it, and is never read by a derivation after that.
C16_ReleasedExactlyOnce ==
    /\ \A p \in 1..Len(heap) :
        /\ heap[p].frees <= 1
        /\ heap[p].live <=> heap[p].frees = 0
        /\ heap[p].live <=> p \in handles.keys \cup handles.mems \cup ProviderOwned
    /\ handles.keys \cap handles.mems = {}
    /\ ProviderOwned \cap (handles.keys \cup handles.mems) = {}
    /\ handles.keys \cup handles.mems \cup ProviderOwned \subseteq 1..Len(heap)
    /\ \A i \in 1..Len(derived) : derived[i].live

C16_Witness ==
    /\ pc = "load_failed"
    /\ \E p \in 1..Len(heap) : heap[p].frees = 1 /\ p \notin handles.keys \cup handles.mems
    /\ \E p \in 1..Len(heap) : heap[p].live /\ p \in handles.mems
    /\ derived # <<>>

\* C17: in the recorded order of crypto calls an init precedes every other
\* call; a ChunkedHash of an upload or download exists only under a provider
\* whose construction initialised the library; and an init of the initialised
\* library leaves it initialised.
C17_InitFirst ==
    /\ [](/\ \A i \in 1..Len(cryptolog) :
                cryptolog[i] # "init" => \E j \in 1..(i - 1) : cryptolog[j] = "init"
          /\ hash # NoHash => (aws # NoProvider /\ sodium.ready)
          /\ pc \notin {"start", "load_failed"} => (aws # NoProvider /\ sodium.ready)
          /\ sodium.inits >= 1 => sodium.ready)
    /\ [][(sodium.ready /\ sodium' # sodium) =>
            (sodium'.ready /\ sodium'.inits = sodium.inits + 1)]_vars

C17_Witness ==
    /\ sodium.inits = MaxInit + 1
    /\ op = "download"
    /\ hash # NoHash
    /\ cryptolog[1] = "init"
    /\ cryptolog[Len(cryptolog)] = "derive_subkey"

RECURSIVE SumLen(_)
SumLen(chunks) == IF chunks = <<>> THEN 0 ELSE Len(Head(chunks)) + SumLen(Tail(chunks))

\* C18: when an upload has returned its triple, the parts the session holds
\* are numbered 1..n in order, each is non-empty, each but the last holds
\* CHUNK_SIZE bytes, the last at most CHUNK_SIZE, FileSize is the sum of their
\* lengths and FileHash the keyed digest of their concatenation.
C18_PartSizes ==
    (pc = "uploaded" /\ upload_result.kind = "ok") =>
        LET n == Len(session.parts) IN
        /\ \A k \in 1..n :
            /\ session.parts[k].part_number = k
            /\ Len(session.parts[k].body) >= 1
            /\ Len(session.parts[k].body) <= CHUNK_SIZE
            /\ k < n => Len(session.parts[k].body) = CHUNK_SIZE
        /\ upload_result.size = SumLen(PartBodies)
        /\ upload_result.hash = KeyedDigestHex(aws.file_hash_key, Concat(PartBodies))

C18_Witness ==
    /\ pc = "uploaded"
    /\ upload_result.kind = "ok"
    /\ Len(session.parts) = 2
    /\ Len(session.parts[1].body) = CHUNK_SIZE
    /\ Len(session.parts[2].body) = 1
    /\ upload_result.size = CHUNK_SIZE + 1

\* The positions in hist of the calls that close a multipart session.
ClosingCalls == {i \in DOMAIN hist : hist[i].op \in {"complete", "abort"}}

\* C19: an upload whose calls all return ends with one outcome: the triple
\* after a successful complete call, or one error; the outcome is set once;
\* and the part loop ends, with the whole file read, at the read that leaves
\* the chunk empty.
C19_UploadTerminates ==
    /\ (pc = "open") ~> (pc = "uploaded" /\ upload_result.kind \in {"ok", "err"})
    /\ [](pc = "uploaded" => (upload_result.kind = "ok" <=> LastEv = Ev("completed", 0)))
    /\ [](pc = "complete" => (filePos = Len(source) /\ buffer = <<>> /\ fed = source))
    /\ [](\A i \in DOMAIN hist : hist[i].op = "complete" =>
            \A j \in (i + 1)..Len(hist) : hist[j].op \notin {"read", "hash", "upload_part"})
    /\ [][upload_result' # upload_result =>
            (upload_result = NoResult /\ pc \in UploadAwaits /\ pc' = "uploaded")]_vars

C19_Witness ==
    /\ pc = "uploaded"
    /\ upload_result.kind = "ok"
    /\ Len(source) = MaxLen
    /\ Count("read") = CeilDiv(MaxLen, CHUNK_SIZE) + 1

\* C20: an upload that returned after creating its session issued exactly one
\* closing call for it, complete or abort and never both, and no read, hash
\* or upload_part follows the closing call.
C20_OneClosingCall ==
    /\ Cardinality(ClosingCalls) <= 1
    /\ (pc = "uploaded" /\ Has("created")) => Cardinality(ClosingCalls) = 1
    /\ \A i \in ClosingCalls :
        \A j \in (i + 1)..Len(hist) : hist[j].op \notin {"read", "hash", "upload_part"}

C20_Witness ==
    /\ pc = "uploaded"
    /\ upload_result = Err("complete")
    /\ Count("complete") = 1
    /\ Count("abort") = 0
    /\ Count("upload_part") = 2

\* The calls to the backend an upload can issue.
BackendCalls == {"create", "upload_part", "complete", "abort"}

\* C21: create_multipart_upload is issued only when File::open has returned
\* the file; an upload that returned the File::open error issued no backend
\* call, and one that returned the create_multipart_upload error issued the
\* create call and no upload_part, complete or abort.
C21_EarlyFailures ==
    /\ \A i \in DOMAIN hist :
        hist[i].op = "create" => (i > 1 /\ hist[i - 1] = Ev("open", 0))
    /\ (pc = "uploaded" /\ upload_result = Err("open")) =>
        \A i \in DOMAIN hist : hist[i].op \notin BackendCalls
    /\ (pc = "uploaded" /\ upload_result = Err("create")) =>
        /\ Count("create") = 1
        /\ ~Has("created")
        /\ \A i \in DOMAIN hist : hist[i].op \notin BackendCalls \ {"create"}
    /\ pc = "create" => LastEv = Ev("create", 0)

C21_Witness ==
    /\ pc = "uploaded"
    /\ upload_result = Err("create")
    /\ hist = <<Ev("open", 0), Ev("create", 0)>>

\* A download that returned the get_object error or the size mismatch: it
\* failed before File::create was issued.
FailedBeforeCreate ==
    /\ pc = "downloaded"
    /\ download_result \in {Err("get_object"), Err("size_mismatch")}

\* C22 as stated: after a download that failed before the destination file
\* was created, remove_file was issued and no file is left at
\* destination_path, whatever was there before the call.
C22_PriorFileGone ==
    FailedBeforeCreate =>
        /\ Has("remove_file")
        /\ ~dest.exists

\* C22 amended: such a download never issued File::create, issued remove_file
\* after the failure and before returning, and a file that was at
\* destination_path before the call is deleted by it unless the remove_file
\* call itself failed, in which case the file is left as it was.
C22_PriorFileRemovalAttempted ==
    FailedBeforeCreate =>
        /\ ~Has("file_create")
        /\ Len(hist) >= 2
        /\ hist[Len(hist) - 1].op = "remove_file"
        /\ LastEv.op \in {"removed", "remove_failed"}
        /\ LastEv.op = "removed" => ~dest.exists
        /\ dest.exists => (LastEv.op = "remove_failed" /\ dest \in PriorDest)

C22_Witness ==
    /\ pc = "downloaded"
    /\ download_result = Err("size_mismatch")
    /\ ~Has("file_create")
    /\ LastEv.op = "removed"
    /\ ~dest.exists

====
